---------------------------- MODULE Spec2Model ----------------------------
(***************************************************************************)
(* ER wait-time capture (cbhuber17/ERWaitTimes).                           *)
(*                                                                         *)
(* Spec        the long-running program, capture_er_wait_data.py run as    *)
(*             __main__: two poller threads (t_yyc, t_yeg) that share the  *)
(*             module global LAST_SMS_TIME and the notifier of send_sms.py *)
(* LambdaSpec  the on-demand variant, AWSLambdaCapture/                    *)
(*             capture_er_wait_data.py: one invocation at a time of the    *)
(*             module-level capture_data(event)                            *)
(*                                                                         *)
(* Text (str) is a sequence of one-character strings, so that lower(),     *)
(* replace() and int() are computed and not assumed.  An optional value    *)
(* (Python None or a value) is a sequence of length 0 or 1.                *)
(***************************************************************************)
EXTENDS Integers, Sequences, FiniteSets, TLC

---------------------------------------------------------------------------
(* Bounds of the model *)

\* the clock (seconds since process start) is not advanced beyond this: one
\* polling interval and the stagger, so that either poller wakes from the sleep
\* of its first cycle and Edmonton runs a second cycle
MaxTime == 3630

\* on-demand invocations made in a behaviour of LambdaSpec
MaxInvocations == 2

\* hospitals (and wait-time blocks) listed in a city section of ExtractDocs
MaxHospitals == 2

\* calls of _write_csv made in a behaviour of CsvSpec
MaxWrites == 3

---------------------------------------------------------------------------
(* Program constants *)

POLLING_INTERVAL == 3600

MINUTES_PER_HOUR == 60

\* time.sleep(30) of the Calgary poller
STAGGER_SECS == 30

\* timedelta(days=1), in seconds
ONE_DAY == 86400

None == <<>>

Some(v) == <<v>>

IsNone(o) == o = <<>>

Val(o) == o[1]

---------------------------------------------------------------------------
(* Text *)

UpperLetters ==
  <<"A","B","C","D","E","F","G","H","I","J","K","L","M",
    "N","O","P","Q","R","S","T","U","V","W","X","Y","Z">>

LowerLetters ==
  <<"a","b","c","d","e","f","g","h","i","j","k","l","m",
    "n","o","p","q","r","s","t","u","v","w","x","y","z">>

\* str.lower() on one character
LowerChar(ch) ==
  IF \E k \in DOMAIN UpperLetters : UpperLetters[k] = ch
  THEN LowerLetters[CHOOSE k \in DOMAIN UpperLetters : UpperLetters[k] = ch]
  ELSE ch

\* str.lower()
Lower(s) == [k \in DOMAIN s |-> LowerChar(s[k])]

\* str.replace(old, new) for one-character old and new
Replace(s, old, new) == [k \in DOMAIN s |-> IF s[k] = old THEN new ELSE s[k]]

S_Calgary == <<"C","a","l","g","a","r","y">>

S_Edmonton == <<"E","d","m","o","n","t","o","n">>

S_calgary == <<"c","a","l","g","a","r","y">>

S_edmonton == <<"e","d","m","o","n","t","o","n">>

S_time_stamp == <<"t","i","m","e","_","s","t","a","m","p">>


Digits == <<"0","1","2","3","4","5","6","7","8","9">>

IsDigit(ch) == \E k \in DOMAIN Digits : Digits[k] = ch

DigitVal(ch) == (CHOOSE k \in DOMAIN Digits : Digits[k] = ch) - 1

IsSpace(ch) == ch \in {" ", "\t", "\n"}

\* str.strip(): int() ignores leading and trailing whitespace
RECURSIVE LStrip(_)
LStrip(s) == IF s # <<>> /\ IsSpace(Head(s)) THEN LStrip(Tail(s)) ELSE s

RECURSIVE RStrip(_)
RStrip(s) ==
  IF s # <<>> /\ IsSpace(s[Len(s)]) THEN RStrip(SubSeq(s, 1, Len(s) - 1)) ELSE s

Strip(s) == RStrip(LStrip(s))

\* the digits of an int() literal: digits, single underscores only between digits
IsDigitBody(b) ==
  /\ b # <<>>
  /\ IsDigit(b[1])
  /\ IsDigit(b[Len(b)])
  /\ \A k \in DOMAIN b : IsDigit(b[k]) \/ b[k] = "_"
  /\ \A k \in 1..(Len(b) - 1) : ~(b[k] = "_" /\ b[k + 1] = "_")

RECURSIVE DigitsValue(_, _)
DigitsValue(b, acc) ==
  IF b = <<>> THEN acc
  ELSE IF Head(b) = "_" THEN DigitsValue(Tail(b), acc)
  ELSE DigitsValue(Tail(b), 10 * acc + DigitVal(Head(b)))

\* int(x) of Python for x a str or None: [ok |-> FALSE] stands for the
\* ValueError (not an integer literal) or TypeError (None) it raises
py_int(x) ==
  IF IsNone(x) THEN [ok |-> FALSE, val |-> 0]
  ELSE LET t == Strip(Val(x))
           signed == t # <<>> /\ t[1] \in {"+", "-"}
           body == IF signed THEN Tail(t) ELSE t
       IN IF ~IsDigitBody(body) THEN [ok |-> FALSE, val |-> 0]
          ELSE [ok |-> TRUE,
                val |-> IF signed /\ t[1] = "-"
                        THEN 0 - DigitsValue(body, 0)
                        ELSE DigitsValue(body, 0)]

---------------------------------------------------------------------------
(* Python dict: a sequence of <<key, value>> pairs with distinct keys, in   *)
(* insertion order.                                                        *)

DictHas(d, k) == \E j \in DOMAIN d : d[j][1] = k

\* d[k] = v: a present key keeps its position and takes the new value
DictSet(d, k, v) ==
  IF DictHas(d, k)
  THEN [j \in DOMAIN d |-> IF d[j][1] = k THEN <<k, v>> ELSE d[j]]
  ELSE Append(d, <<k, v>>)

DictGet(d, k) == d[CHOOSE j \in DOMAIN d : d[j][1] = k][2]

Min(a, b) == IF a <= b THEN a ELSE b

\* dict(zip(keys, vals))
RECURSIVE DictZipFrom(_, _, _, _)
DictZipFrom(keys, vals, j, acc) ==
  IF j > Min(Len(keys), Len(vals)) THEN acc
  ELSE DictZipFrom(keys, vals, j + 1, DictSet(acc, keys[j], vals[j]))

DictZip(keys, vals) == DictZipFrom(keys, vals, 1, <<>>)

\* {**d1, **d2}
RECURSIVE DictMerge(_, _)
DictMerge(d1, d2) ==
  IF d2 = <<>> THEN d1
  ELSE DictMerge(DictSet(d1, d2[1][1], d2[1][2]), Tail(d2))

---------------------------------------------------------------------------
(* The rendered page, as the document parser shows it.                      *)
(* A document is the sequence of its city sections; a section holds the     *)
(* class suffix of its div (cityContent-<suffix>), its hospitalName nodes   *)
(* and its wt-times nodes.  A hospitalName node is the optional contents of *)
(* its anchor (None: no anchor), each child an optional text (None: a child *)
(* that is a tag, not text).  A wt-times node is the sequence of the        *)
(* .string values of its strong tags (None: no single string).              *)

NameNode(text) == [a |-> Some(<<Some(text)>>)]

NoAnchorNode == [a |-> None]

Section(suffix, names, times) ==
  [city |-> suffix, hospitalName |-> names, wt_times |-> times]

BothCities(names, times) ==
  <<Section(S_calgary, names, times), Section(S_edmonton, names, times)>>

\* one hospital with a posted wait of 1 h 30 min
PageGood == BothCities(<<NameNode(<<"A">>)>>, << <<Some(<<"1">>), Some(<<"3","0">>)>> >>)

\* a hospital node without anchor, then a hospital whose hours are not a number
PageBroken ==
  BothCities(<<NoAnchorNode, NameNode(<<"B", ".">>)>>,
             << <<Some(<<"2">>), Some(<<"5">>)>>, <<Some(<<"x">>), Some(<<"5">>)>> >>)

\* the layout changed: no cityContent-<city> div at all
PageNoSection == <<>>

\* what the page fetcher may return in a cycle of the long-running program
Pages == {PageGood, PageBroken, PageNoSection}

---------------------------------------------------------------------------
(* Environment *)

RequiredEnv ==
  {"MONGO_DB_URL", "TWILIO_ACCOUNT_SID", "TWILIO_AUTH_TOKEN",
   "MY_TWILIO_NUM", "MY_PHONE_NUM"}

\* the process environments considered: complete, or lacking one value
EnvConfigs == {RequiredEnv} \cup {RequiredEnv \ {v} : v \in RequiredEnv}

\* the names given to the ErWait constructor by callers of the on-demand variant
CityNames ==
  {S_Calgary, S_calgary, <<"C","A","L","G","A","R","Y">>,
   S_Edmonton, <<"e","D","M","O","N","T","O","N">>,
   <<"R","e","d"," ","D","e","e","r">>, <<"C","a","l","g","a","r","y"," ">>, <<>>}

---------------------------------------------------------------------------
(* State *)

VARIABLES
  env,            \* names of the environment variables that are set
  main,           \* "boot", "running", "import_error": the module and __main__
  now,            \* the clock, in seconds
  LAST_SMS_TIME,  \* module global of capture_er_wait_data.py
  db,             \* erWaitTimesDB: collection name -> documents in insertion order
  csv_file,       \* the stats file of an ErWait object: its rows, None while it
                  \* does not exist
  csv_written,    \* history: the Observations given to _write_csv, in call order
  dash,           \* the plotting module: the latest call of plot_line
  open_sessions,  \* per thread: browser sessions it started and has not quit
  pace,           \* history, per ErWait object: the times its calls of _run_driver
                  \*          began, the end of its latest time.sleep(POLLING_INTERVAL)
                  \*          and the number of its calls of _write_db
  pc,             \* per thread: where it is in capture_data
  wake,           \* per thread: end of the time.sleep it is in
  excn,           \* per thread: the exception that ended it, "" when none
  self_city,      \* per thread: ErWait.city, None before construction
  page,           \* local page of capture_data, None before the first fetch
  doc,            \* local doc of capture_data
  wait_data,      \* local wait_data of capture_data
  hospitals,      \* local hospitals of _get_wait_data
  wait_times,     \* local wait_times of _get_wait_data
  idx,            \* position of the zip loop of _get_wait_data
  ret,            \* where the thread continues when sms_exception_message returns
  last_sms_time,  \* argument last_sms_time of the notifier call in progress
  sms_ret,        \* value the notifier call returned, not yet assigned
  sms_outcome,    \* history: what send_sms did in the thread's latest call
  min_gap,        \* history: least time from a dispatch attempt to the next one
                  \*          that was made while no other notifier call was going on
  last_attempt,   \* history: time of the latest SMS dispatch attempt
  cyc,            \* history: what the thread's current cycle has done
  fail_at,        \* history: time of the thread's latest fetch or parse failure
  insert_failed,  \* history: Observations whose insert_one raised, per thread
  invocations,    \* on-demand variant: invocations made so far
  event,          \* on-demand variant: event['city'] of the latest invocation
  result          \* on-demand variant: outcome of the latest invocation

procVars == <<pc, wake, excn, self_city>>

localVars == <<page, doc, wait_data, hospitals, wait_times, idx>>

smsVars ==
  <<ret, last_sms_time, sms_ret, sms_outcome, min_gap, last_attempt, LAST_SMS_TIME>>

histVars == <<cyc, fail_at, insert_failed>>

lambdaVars == <<invocations, event, result>>

csvVars == <<csv_file, csv_written>>

vars ==
  <<env, main, now, db, csvVars, dash, open_sessions, pace, procVars, localVars, smsVars, histVars, lambdaVars>>

Threads == {"t_yyc", "t_yeg"}

\* plot_line has not been called
NoCall == [city |-> None, read |-> "none", df |-> None, excn |-> "", fig |-> "none"]

\* no fetch begun, no interval sleep and no insert made yet
NoPace == [fetches |-> <<>>, sleep_end |-> None, inserts |-> 0]

\* nothing done yet in the cycle: no stage failed, none completed
NewCycle ==
  [failed |-> "none", notified |-> FALSE, fetched |-> FALSE, parsed |-> FALSE,
   extracted |-> FALSE, persisted |-> FALSE]

---------------------------------------------------------------------------
(* ErWait: constructor and the pure parts of _get_wait_data *)

\* ValidCity as it would be without lower(): the name is compared as given
ValidCity_CaseSensitive(city) == city = S_Calgary \/ city = S_Edmonton

\* the test of ErWait.__init__
ValidCity(city) == Lower(city) = S_calgary \/ Lower(city) = S_edmonton

\* ErWait(city): the object's city, or ok = FALSE for the ValueError
ErWait_init(city) ==
  IF ValidCity(city) THEN [ok |-> TRUE, city |-> Some(city)]
  ELSE [ok |-> FALSE, city |-> None]

\* doc.find("div", class_=f"cityContent-{self.city.lower()}"): first match or None
get_div_city(d, city) ==
  LET hits == {j \in DOMAIN d : d[j].city = Lower(city)}
  IN IF hits = {} THEN None
     ELSE Some(d[CHOOSE j \in hits : \A k \in hits : j <= k])

\* hospital_name as it would be without the replace('.', '*')
hospital_name_Raw(node) ==
  IF IsNone(node.a) THEN [ok |-> FALSE, name |-> <<>>]
  ELSE LET contents == Val(node.a)
       IN IF contents = <<>> \/ IsNone(contents[1])
          THEN [ok |-> FALSE, name |-> <<>>]
          ELSE [ok |-> TRUE, name |-> Val(contents[1])]

\* hospital.find("a").contents[0].replace('.', '*'); ok = FALSE when it raises
hospital_name(node) ==
  IF IsNone(node.a) THEN [ok |-> FALSE, name |-> <<>>]
  ELSE LET contents == Val(node.a)
       IN IF contents = <<>> \/ IsNone(contents[1])
          THEN [ok |-> FALSE, name |-> <<>>]
          ELSE [ok |-> TRUE, name |-> Replace(Val(contents[1]), ".", "*")]

\* wait_minutes as it would be with the hours left out of the sum
wait_minutes_NoHours(strong) ==
  IF Len(strong) = 2
  THEN LET hours_wait == py_int(strong[1])
           minutes_wait == py_int(strong[2])
       IN IF hours_wait.ok /\ minutes_wait.ok
          THEN [err |-> FALSE, val |-> Some(minutes_wait.val)]
          ELSE [err |-> TRUE, val |-> None]
  ELSE [err |-> FALSE, val |-> None]

\* wait_minutes as it would be if a block of other than two strong tags were
\* handled like a block whose int() raises
wait_minutes_Strict(strong) ==
  IF Len(strong) = 2
  THEN LET hours_wait == py_int(strong[1])
           minutes_wait == py_int(strong[2])
       IN IF hours_wait.ok /\ minutes_wait.ok
          THEN [err |-> FALSE,
                val |-> Some(hours_wait.val * MINUTES_PER_HOUR + minutes_wait.val)]
          ELSE [err |-> TRUE, val |-> None]
  ELSE [err |-> TRUE, val |-> None]

\* the wait time of one wt-times node: err = TRUE when int() raises
wait_minutes(strong) ==
  IF Len(strong) = 2
  THEN LET hours_wait == py_int(strong[1])
           minutes_wait == py_int(strong[2])
       IN IF hours_wait.ok /\ minutes_wait.ok
          THEN [err |-> FALSE,
                val |-> Some(hours_wait.val * MINUTES_PER_HOUR + minutes_wait.val)]
          ELSE [err |-> TRUE, val |-> None]
  ELSE [err |-> FALSE, val |-> None]

\* {**current_time, **wait_data}; the time stamp has the resolution of the clock
observation(hs, wts, t) ==
  DictMerge(<< <<Some(S_time_stamp), <<"ts", t>> >> >>, DictZip(hs, wts))

---------------------------------------------------------------------------
(* The long-running program *)

Init ==
  /\ env \in EnvConfigs
  /\ main = "boot"
  /\ now = 0
  /\ LAST_SMS_TIME = None
  /\ db = [n \in CityNames |-> <<>>]
  /\ csv_file = None
  /\ csv_written = <<>>
  /\ dash = NoCall
  /\ open_sessions = [p \in Threads |-> 0]
  /\ pace = [p \in Threads |-> NoPace]
  /\ pc = [p \in Threads |-> "unborn"]
  /\ wake = [p \in Threads |-> 0]
  /\ excn = [p \in Threads |-> ""]
  /\ self_city = [p \in Threads |-> None]
  /\ page = [p \in Threads |-> None]
  /\ doc = [p \in Threads |-> None]
  /\ wait_data = [p \in Threads |-> None]
  /\ hospitals = [p \in Threads |-> <<>>]
  /\ wait_times = [p \in Threads |-> <<>>]
  /\ idx = [p \in Threads |-> 0]
  /\ ret = [p \in Threads |-> ""]
  /\ last_sms_time = [p \in Threads |-> None]
  /\ sms_ret = [p \in Threads |-> None]
  /\ sms_outcome = [p \in Threads |-> "none"]
  /\ min_gap = None
  /\ last_attempt = None
  /\ cyc = [p \in Threads |-> NewCycle]
  /\ fail_at = [p \in Threads |-> None]
  /\ insert_failed = [p \in Threads |-> {}]
  /\ invocations = 0
  /\ event = None
  /\ result = "none"

\* import of the module (MONGO_CLIENT_URL = os.environ[...]) and __main__:
\* both pollers are constructed and their threads started
Startup ==
  /\ main = "boot"
  /\ LET yyc == ErWait_init(S_Calgary)
         yeg == ErWait_init(S_Edmonton)
     IN IF "MONGO_DB_URL" \notin env
        THEN /\ main' = "import_error"
             /\ UNCHANGED procVars
        ELSE IF ~(yyc.ok /\ yeg.ok)
        THEN /\ main' = "value_error"
             /\ UNCHANGED procVars
        ELSE /\ main' = "running"
             /\ self_city' = [self_city EXCEPT !["t_yyc"] = yyc.city, !["t_yeg"] = yeg.city]
             /\ pc' = [p \in Threads |-> "loop"]
             /\ UNCHANGED <<wake, excn>>
  /\ UNCHANGED <<env, csvVars, dash, open_sessions, pace, now, db, localVars, smsVars, histVars, lambdaVars>>

\* an exception nothing catches leaves capture_data: the thread ends
Raise(p, e) ==
  /\ pc' = [pc EXCEPT ![p] = "dead"]
  /\ excn' = [excn EXCEPT ![p] = e]

\* LAST_SMS_TIME = sms_exception_message(msg, e, LAST_SMS_TIME), then go on at retpc
Notify(p, retpc) ==
  /\ pc' = [pc EXCEPT ![p] = "sms_read"]
  /\ ret' = [ret EXCEPT ![p] = retpc]

Sleep(p, secs, kind) ==
  /\ pc' = [pc EXCEPT ![p] = kind]
  /\ wake' = [wake EXCEPT ![p] = now + secs]

\* self._run_driver(3) is called now
FetchBegins(p) == pace' = [pace EXCEPT ![p].fetches = Append(@, now)]

\* self._write_db(wait_data) is called now
InsertBegins(p) == pace' = [pace EXCEPT ![p].inserts = @ + 1]

\* time.sleep(POLLING_INTERVAL) is called now
IntervalSleepBegins(p) ==
  pace' = [pace EXCEPT ![p].sleep_end = Some(now + POLLING_INTERVAL)]

\* LoopTop as it would be without the stagger of lines 187-188
LoopTop_NoStagger(p) ==
  /\ pc[p] = "loop"
  /\ cyc' = [cyc EXCEPT ![p] = NewCycle]
  /\ pc' = [pc EXCEPT ![p] = "fetch"]
  /\ FetchBegins(p)
  /\ UNCHANGED wake
  /\ UNCHANGED <<env, csvVars, dash, open_sessions, main, now, db, excn, self_city, localVars, smsVars,
                 fail_at, insert_failed, lambdaVars>>

\* top of the while loop: the stagger of the Calgary poller
LoopTop(p) ==
  /\ pc[p] = "loop"
  /\ cyc' = [cyc EXCEPT ![p] = NewCycle]
  /\ IF Lower(Val(self_city[p])) = S_calgary
     THEN /\ Sleep(p, STAGGER_SECS, "stagger_sleep")
          /\ UNCHANGED pace
     ELSE /\ pc' = [pc EXCEPT ![p] = "fetch"]
          /\ FetchBegins(p)
          /\ UNCHANGED wake
  /\ UNCHANGED <<env, csvVars, dash, open_sessions, main, now, db, excn, self_city, localVars, smsVars,
                 fail_at, insert_failed, lambdaVars>>

Sleeping(p) == pc[p] \in {"stagger_sleep", "sleeping"}

\* Time passes, up to the next end of a sleep, while every thread is blocked: in
\* time.sleep, or in _run_driver (browser start, page load and settle delay, of
\* unbounded duration).  All other steps interleave freely at one clock value.
Tick ==
  /\ \A q \in DOMAIN pc : Sleeping(q) \/ pc[q] \in {"unborn", "fetch", "dead"}
  /\ \E p \in DOMAIN pc :
       /\ Sleeping(p)
       /\ wake[p] > now
       /\ wake[p] <= MaxTime
       /\ \A q \in DOMAIN pc : (Sleeping(q) /\ wake[q] > now) => wake[p] <= wake[q]
       /\ now' = wake[p]
  /\ UNCHANGED <<env, csvVars, dash, open_sessions, pace, main, db, procVars, localVars, smsVars, histVars, lambdaVars>>

\* time.sleep returns
WakeUp(p) ==
  /\ Sleeping(p)
  /\ now >= wake[p]
  /\ pc' = [pc EXCEPT ![p] = IF pc[p] = "stagger_sleep" THEN "fetch" ELSE "loop"]
  /\ IF pc[p] = "stagger_sleep" THEN FetchBegins(p) ELSE UNCHANGED pace
  /\ UNCHANGED <<env, csvVars, dash, open_sessions, main, now, db, wake, excn, self_city, localVars, smsVars,
                 histVars, lambdaVars>>

\* what _run_driver can fail in: starting the browser (webdriver.Chrome), the
\* navigation (driver.get) or the capture (driver.page_source)
DriverSteps == {"start", "get", "page_source"}

\* _run_driver raises in step: a browser that was started is left running,
\* since driver.quit() is reached on the normal path only
SessionsAfterRaise(n, step) == IF step = "start" THEN n ELSE n + 1

\* page = self._run_driver(3) returns the rendered page
RunDriverReturns(p) ==
  /\ pc[p] = "fetch"
  /\ \E html \in Pages : page' = [page EXCEPT ![p] = Some(html)]
  /\ pc' = [pc EXCEPT ![p] = "parse"]
  /\ fail_at' = [fail_at EXCEPT ![p] = None]
  /\ cyc' = [cyc EXCEPT ![p].fetched = TRUE]
  /\ UNCHANGED <<env, csvVars, dash, open_sessions, pace, main, now, db, wake, excn, self_city, doc, wait_data,
                 hospitals, wait_times, idx, smsVars, insert_failed, lambdaVars>>

\* self._run_driver(3) raises: except branch of lines 195-198
RunDriverRaises(p) ==
  /\ pc[p] = "fetch"
  /\ \E step \in DriverSteps :
       open_sessions' = [open_sessions EXCEPT ![p] = SessionsAfterRaise(@, step)]
  /\ Notify(p, "fail_wait")
  /\ cyc' = [cyc EXCEPT ![p].failed = "fetch", ![p].notified = TRUE]
  /\ fail_at' = [fail_at EXCEPT ![p] = Some(now)]
  /\ UNCHANGED <<env, csvVars, dash, pace, main, now, db, wake, excn, self_city, localVars,
                 last_sms_time, sms_ret, sms_outcome, min_gap, last_attempt,
                 LAST_SMS_TIME,
                 insert_failed, lambdaVars>>

\* doc = BeautifulSoup(page, "html.parser")
ParseReturns(p) ==
  /\ pc[p] = "parse"
  /\ doc' = [doc EXCEPT ![p] = page[p]]
  /\ pc' = [pc EXCEPT ![p] = "extract"]
  /\ cyc' = [cyc EXCEPT ![p].parsed = TRUE]
  /\ UNCHANGED <<env, csvVars, dash, open_sessions, pace, main, now, db, wake, excn, self_city, page, wait_data,
                 hospitals, wait_times, idx, smsVars, fail_at, insert_failed,
                 lambdaVars>>

\* BeautifulSoup raises: except branch of lines 205-208
ParseRaises(p) ==
  /\ pc[p] = "parse"
  /\ Notify(p, "fail_wait")
  /\ cyc' = [cyc EXCEPT ![p].failed = "parse", ![p].notified = TRUE]
  /\ fail_at' = [fail_at EXCEPT ![p] = Some(now)]
  /\ UNCHANGED <<env, csvVars, dash, open_sessions, pace, main, now, db, wake, excn, self_city, localVars,
                 last_sms_time, sms_ret, sms_outcome, min_gap, last_attempt,
                 LAST_SMS_TIME,
                 insert_failed, lambdaVars>>

\* FailSleep as it would be without the time.sleep: continue at once
FailSleep_NoSleep(p) ==
  /\ pc[p] = "fail_wait"
  /\ pc' = [pc EXCEPT ![p] = "loop"]
  /\ UNCHANGED <<env, csvVars, dash, open_sessions, pace, main, now, db, wake, excn, self_city, localVars, smsVars,
                 histVars, lambdaVars>>

\* time.sleep(POLLING_INTERVAL); continue  (lines 199-200 and 209-210)
FailSleep(p) ==
  /\ pc[p] = "fail_wait"
  /\ Sleep(p, POLLING_INTERVAL, "sleeping")
  /\ IntervalSleepBegins(p)
  /\ UNCHANGED <<env, csvVars, dash, open_sessions, main, now, db, excn, self_city, localVars, smsVars,
                 histVars, lambdaVars>>

\* the city section the zip loop of _get_wait_data runs over
div_city(p) == get_div_city(Val(doc[p]), Val(self_city[p]))

zip_len(p) ==
  Min(Len(Val(div_city(p)).hospitalName), Len(Val(div_city(p)).wt_times))

\* _get_wait_data, lines 86-90: without the city's div, div_city.find_all raises
\* AttributeError, which capture_data (line 213) does not catch
ExtractBegin(p) ==
  /\ pc[p] = "extract"
  /\ IF IsNone(div_city(p))
     THEN /\ Raise(p, "AttributeError")
          /\ cyc' = [cyc EXCEPT ![p].failed = "section"]
          /\ UNCHANGED <<hospitals, wait_times, idx>>
     ELSE /\ pc' = [pc EXCEPT ![p] = "extract_loop"]
          /\ hospitals' = [hospitals EXCEPT ![p] = <<>>]
          /\ wait_times' = [wait_times EXCEPT ![p] = <<>>]
          /\ idx' = [idx EXCEPT ![p] = 1]
          /\ UNCHANGED <<excn, cyc>>
  /\ UNCHANGED <<env, csvVars, dash, open_sessions, pace, main, now, db, wake, self_city, page, doc, wait_data,
                 smsVars, fail_at, insert_failed, lambdaVars>>

\* ExtractNameRaises as it would be without wait_times.append(None) of line 102
ExtractNameRaises_NameOnly(p) ==
  /\ pc[p] = "extract_loop"
  /\ idx[p] <= zip_len(p)
  /\ ~hospital_name(Val(div_city(p)).hospitalName[idx[p]]).ok
  /\ hospitals' = [hospitals EXCEPT ![p] = Append(@, None)]
  /\ idx' = [idx EXCEPT ![p] = @ + 1]
  /\ Notify(p, "extract_loop")
  /\ cyc' = [cyc EXCEPT ![p].notified = TRUE]
  /\ UNCHANGED <<env, csvVars, dash, open_sessions, pace, main, now, db, wake, excn, self_city, page, doc, wait_data,
                 wait_times, last_sms_time, sms_ret, sms_outcome, min_gap, last_attempt,
                 LAST_SMS_TIME,
                 fail_at, insert_failed, lambdaVars>>

\* one pass of the zip loop in which the name of the hospital cannot be read
\* (lines 96-104)
ExtractNameRaises(p) ==
  /\ pc[p] = "extract_loop"
  /\ idx[p] <= zip_len(p)
  /\ ~hospital_name(Val(div_city(p)).hospitalName[idx[p]]).ok
  /\ hospitals' = [hospitals EXCEPT ![p] = Append(@, None)]
  /\ wait_times' = [wait_times EXCEPT ![p] = Append(@, None)]
  /\ idx' = [idx EXCEPT ![p] = @ + 1]
  /\ Notify(p, "extract_loop")
  /\ cyc' = [cyc EXCEPT ![p].notified = TRUE]
  /\ UNCHANGED <<env, csvVars, dash, open_sessions, pace, main, now, db, wake, excn, self_city, page, doc, wait_data,
                 last_sms_time, sms_ret, sms_outcome, min_gap, last_attempt,
                 LAST_SMS_TIME,
                 fail_at, insert_failed, lambdaVars>>

\* one pass of the zip loop in which int() raises (lines 113-120)
ExtractWaitRaises(p) ==
  /\ pc[p] = "extract_loop"
  /\ idx[p] <= zip_len(p)
  /\ LET name == hospital_name(Val(div_city(p)).hospitalName[idx[p]])
         wt == wait_minutes(Val(div_city(p)).wt_times[idx[p]])
     IN /\ name.ok
        /\ wt.err
        /\ hospitals' = [hospitals EXCEPT ![p] = Append(@, Some(name.name))]
        /\ wait_times' = [wait_times EXCEPT ![p] = Append(@, None)]
  /\ idx' = [idx EXCEPT ![p] = @ + 1]
  /\ Notify(p, "extract_loop")
  /\ cyc' = [cyc EXCEPT ![p].notified = TRUE]
  /\ UNCHANGED <<env, csvVars, dash, open_sessions, pace, main, now, db, wake, excn, self_city, page, doc, wait_data,
                 last_sms_time, sms_ret, sms_outcome, min_gap, last_attempt,
                 LAST_SMS_TIME,
                 fail_at, insert_failed, lambdaVars>>

\* one pass of the zip loop that raises nothing (lines 95, 106-112, 121-122)
ExtractEntry(p) ==
  /\ pc[p] = "extract_loop"
  /\ idx[p] <= zip_len(p)
  /\ LET name == hospital_name(Val(div_city(p)).hospitalName[idx[p]])
         wt == wait_minutes(Val(div_city(p)).wt_times[idx[p]])
     IN /\ name.ok
        /\ ~wt.err
        /\ hospitals' = [hospitals EXCEPT ![p] = Append(@, Some(name.name))]
        /\ wait_times' = [wait_times EXCEPT ![p] = Append(@, wt.val)]
  /\ idx' = [idx EXCEPT ![p] = @ + 1]
  /\ UNCHANGED <<env, csvVars, dash, open_sessions, pace, main, now, db, procVars, page, doc, wait_data, smsVars,
                 histVars, lambdaVars>>

\* ExtractReturns as it would be if the names past the end of the shorter list
\* were kept, each with the unknown value
ExtractReturns_Padded(p) ==
  /\ pc[p] = "extract_loop"
  /\ idx[p] > zip_len(p)
  /\ LET names == Val(div_city(p)).hospitalName
         rest == [j \in 1..(Len(names) - zip_len(p)) |->
                    LET name == hospital_name(names[zip_len(p) + j])
                    IN IF name.ok THEN Some(name.name) ELSE None]
         data == observation(hospitals[p] \o rest,
                             wait_times[p] \o [j \in DOMAIN rest |-> None], now)
     IN wait_data' = [wait_data EXCEPT ![p] = Some(data)]
  /\ cyc' = [cyc EXCEPT ![p].extracted = TRUE]
  /\ pc' = [pc EXCEPT ![p] = "persist"]
  /\ hospitals' = [hospitals EXCEPT ![p] = <<>>]
  /\ wait_times' = [wait_times EXCEPT ![p] = <<>>]
  /\ idx' = [idx EXCEPT ![p] = 0]
  /\ UNCHANGED <<env, csvVars, dash, open_sessions, pace, main, now, db, wake, excn, self_city, page, doc,
                 smsVars, fail_at, insert_failed, lambdaVars>>

\* end of the loop, lines 124-128: wait_data, now = self._get_wait_data(doc)
ExtractReturns(p) ==
  /\ pc[p] = "extract_loop"
  /\ idx[p] > zip_len(p)
  /\ LET data == observation(hospitals[p], wait_times[p], now)
     IN wait_data' = [wait_data EXCEPT ![p] = Some(data)]
  /\ cyc' = [cyc EXCEPT ![p].extracted = TRUE]
  /\ pc' = [pc EXCEPT ![p] = "persist"]
  /\ hospitals' = [hospitals EXCEPT ![p] = <<>>]
  /\ wait_times' = [wait_times EXCEPT ![p] = <<>>]
  /\ idx' = [idx EXCEPT ![p] = 0]
  /\ UNCHANGED <<env, csvVars, dash, open_sessions, pace, main, now, db, wake, excn, self_city, page, doc,
                 smsVars, fail_at, insert_failed, lambdaVars>>

\* WriteDbReturns as it would be with one collection for every poller
WriteDbReturns_OneCollection(p) ==
  /\ pc[p] = "persist"
  /\ InsertBegins(p)
  /\ db' = [db EXCEPT ![S_Calgary] = Append(@, Val(wait_data[p]))]
  /\ cyc' = [cyc EXCEPT ![p].persisted = TRUE]
  /\ pc' = [pc EXCEPT ![p] = "poll_wait"]
  /\ UNCHANGED <<env, csvVars, dash, open_sessions, main, now, wake, excn, self_city, localVars, smsVars,
                 fail_at, insert_failed, lambdaVars>>

\* self._write_db(wait_data): insert_one into the collection db[self.city]
WriteDbReturns(p) ==
  /\ pc[p] = "persist"
  /\ InsertBegins(p)
  /\ db' = [db EXCEPT ![Val(self_city[p])] = Append(@, Val(wait_data[p]))]
  /\ cyc' = [cyc EXCEPT ![p].persisted = TRUE]
  /\ pc' = [pc EXCEPT ![p] = "poll_wait"]
  /\ UNCHANGED <<env, csvVars, dash, open_sessions, main, now, wake, excn, self_city, localVars, smsVars,
                 fail_at, insert_failed, lambdaVars>>

\* WriteDbRaises as it would be with a retry: the insert is tried again
WriteDbRaises_Retry(p) ==
  /\ pc[p] = "persist"
  /\ InsertBegins(p)
  /\ Val(wait_data[p]) \notin insert_failed[p]
  /\ insert_failed' = [insert_failed EXCEPT ![p] = @ \cup {Val(wait_data[p])}]
  /\ cyc' = [cyc EXCEPT ![p].persisted = TRUE, ![p].failed = "persist",
                        ![p].notified = TRUE]
  /\ UNCHANGED <<env, csvVars, dash, open_sessions, main, now, db, procVars, localVars, smsVars, fail_at,
                 lambdaVars>>

\* connecting or insert_one raises: except branch of lines 169-171
WriteDbRaises(p) ==
  /\ pc[p] = "persist"
  /\ InsertBegins(p)
  /\ insert_failed' = [insert_failed EXCEPT ![p] = @ \cup {Val(wait_data[p])}]
  /\ cyc' = [cyc EXCEPT ![p].persisted = TRUE, ![p].failed = "persist",
                        ![p].notified = TRUE]
  /\ Notify(p, "poll_wait")
  /\ UNCHANGED <<env, csvVars, dash, open_sessions, main, now, db, wake, excn, self_city, localVars,
                 last_sms_time, sms_ret, sms_outcome, min_gap, last_attempt,
                 LAST_SMS_TIME,
                 fail_at, lambdaVars>>

\* PollSleep as it would be without the time.sleep: the next cycle at once
PollSleep_NoSleep(p) ==
  /\ pc[p] = "poll_wait"
  /\ pc' = [pc EXCEPT ![p] = "loop"]
  /\ UNCHANGED <<env, csvVars, dash, open_sessions, pace, main, now, db, wake, excn, self_city,
                 localVars, smsVars, histVars, lambdaVars>>

\* time.sleep(POLLING_INTERVAL) at the end of the cycle (line 225)
PollSleep(p) ==
  /\ pc[p] = "poll_wait"
  /\ Sleep(p, POLLING_INTERVAL, "sleeping")
  /\ IntervalSleepBegins(p)
  /\ UNCHANGED <<env, csvVars, dash, open_sessions, main, now, db, excn, self_city, localVars, smsVars,
                 histVars, lambdaVars>>

---------------------------------------------------------------------------
(* send_sms.py *)

\* last_sms_time is None or (now - last_sms_time) > timedelta(days=1)
ThrottlePermits(last, t) == IsNone(last) \/ t - Val(last) > ONE_DAY

\* send_sms: return now
send_sms_returns(t) == Some(t)

\* sms_exception_message prints what send_sms returned and has no return statement
sms_exception_message_returns(sent) == None

\* the caller evaluates the argument LAST_SMS_TIME of the call
SmsRead(p) ==
  /\ pc[p] = "sms_read"
  /\ last_sms_time' = [last_sms_time EXCEPT ![p] = LAST_SMS_TIME]
  /\ pc' = [pc EXCEPT ![p] = "sms_send"]
  /\ UNCHANGED <<env, csvVars, dash, open_sessions, pace, main, now, db, wake, excn, self_city, localVars, ret,
                 sms_ret, sms_outcome, min_gap, last_attempt,
                 LAST_SMS_TIME, histVars, lambdaVars>>

\* the body of send_sms, called by sms_exception_message.  The credentials are
\* read outside the try (lines 14-15); the numbers inside it (lines 26-27).
SendSms(p) ==
  /\ pc[p] = "sms_send"
  /\ IF ~({"TWILIO_ACCOUNT_SID", "TWILIO_AUTH_TOKEN"} \subseteq env)
     THEN /\ Raise(p, "KeyError")
          /\ UNCHANGED <<sms_ret, sms_outcome, min_gap, last_attempt>>
     ELSE \E twilio \in {"sent", "client_error", "create_error"} :
            LET permitted == ThrottlePermits(last_sms_time[p], now)
                outcome ==
                  IF ~permitted THEN "suppressed"
                  ELSE IF twilio = "client_error" THEN twilio
                  ELSE IF ~({"MY_TWILIO_NUM", "MY_PHONE_NUM"} \subseteq env)
                       THEN "env_error"
                  ELSE twilio
            IN /\ sms_outcome' = [sms_outcome EXCEPT ![p] = outcome]
               /\ min_gap' =
                    IF /\ permitted
                       /\ ~IsNone(last_attempt)
                       /\ \A q \in DOMAIN pc \ {p} : pc[q] \notin {"sms_read", "sms_send", "sms_write"}
                    THEN IF IsNone(min_gap) THEN Some(now - Val(last_attempt))
                         ELSE Some(Min(Val(min_gap), now - Val(last_attempt)))
                    ELSE min_gap
               /\ last_attempt' = IF permitted THEN Some(now) ELSE last_attempt
               /\ sms_ret' = [sms_ret EXCEPT ![p] =
                                sms_exception_message_returns(send_sms_returns(now))]
               /\ pc' = [pc EXCEPT ![p] = "sms_write"]
               /\ UNCHANGED excn
  /\ UNCHANGED <<env, csvVars, dash, open_sessions, pace, main, now, db, wake, self_city, localVars, ret,
                 last_sms_time, LAST_SMS_TIME, histVars, lambdaVars>>

\* the assignment LAST_SMS_TIME = <what sms_exception_message returned>; the
\* locals of the call are gone
SmsWrite(p) ==
  /\ pc[p] = "sms_write"
  /\ LAST_SMS_TIME' = sms_ret[p]
  /\ pc' = [pc EXCEPT ![p] = ret[p]]
  /\ ret' = [ret EXCEPT ![p] = ""]
  /\ last_sms_time' = [last_sms_time EXCEPT ![p] = None]
  /\ sms_ret' = [sms_ret EXCEPT ![p] = None]
  /\ sms_outcome' = [sms_outcome EXCEPT ![p] = "none"]
  /\ UNCHANGED <<env, csvVars, dash, open_sessions, pace, main, now, db, wake, excn, self_city, localVars,
                 min_gap, last_attempt, histVars, lambdaVars>>

---------------------------------------------------------------------------

Poller(p) ==
  \/ LoopTop(p)
  \/ WakeUp(p)
  \/ RunDriverReturns(p)
  \/ RunDriverRaises(p)
  \/ ParseReturns(p)
  \/ ParseRaises(p)
  \/ FailSleep(p)
  \/ ExtractBegin(p)
  \/ ExtractNameRaises(p)
  \/ ExtractWaitRaises(p)
  \/ ExtractEntry(p)
  \/ ExtractReturns(p)
  \/ WriteDbReturns(p)
  \/ WriteDbRaises(p)
  \/ PollSleep(p)
  \/ SmsRead(p)
  \/ SendSms(p)
  \/ SmsWrite(p)

Next == Startup \/ Tick \/ \E p \in Threads : Poller(p)

Spec == Init /\ [][Next]_vars

---------------------------------------------------------------------------
(* The on-demand variant: AWSLambdaCapture/capture_er_wait_data.py *)

Handler == "lambda"

\* the zip loop of _get_wait_data, which in this variant notifies nobody
RECURSIVE zip_loop(_, _, _, _, _)
zip_loop(names, times, j, hs, wts) ==
  IF j > Min(Len(names), Len(times)) THEN [hospitals |-> hs, wait_times |-> wts]
  ELSE LET name == hospital_name(names[j])
       IN IF ~name.ok
          THEN zip_loop(names, times, j + 1, Append(hs, None), Append(wts, None))
          ELSE zip_loop(names, times, j + 1, Append(hs, Some(name.name)),
                        Append(wts, wait_minutes(times[j]).val))

\* _get_wait_data(doc) at time t: ok = FALSE for the AttributeError of a missing div
get_wait_data(d, city, t) ==
  LET div == get_div_city(d, city)
  IN IF IsNone(div) THEN [ok |-> FALSE, data |-> <<>>]
     ELSE LET r == zip_loop(Val(div).hospitalName, Val(div).wt_times, 1, <<>>, <<>>)
          IN [ok |-> TRUE, data |-> observation(r.hospitals, r.wait_times, t)]

\* what _run_driver may raise: the driver does not start or a navigation fails
\* (WebDriverException), or the landing page has no link to the wait-time page
\* (temp['href'] with temp None: TypeError)
FetchErrors == {"WebDriverException", "TypeError"}

LambdaInitOn(stores, views) ==
  /\ env = RequiredEnv
  /\ main = "running"
  /\ now = 0
  /\ LAST_SMS_TIME = None
  /\ db \in stores
  /\ csv_file = None
  /\ csv_written = <<>>
  /\ dash \in views
  /\ open_sessions = [p \in {Handler} |-> 0]
  /\ pace = [p \in {Handler} |-> NoPace]
  /\ pc = [p \in {Handler} |-> "idle"]
  /\ wake = [p \in {Handler} |-> 0]
  /\ excn = [p \in {Handler} |-> ""]
  /\ self_city = [p \in {Handler} |-> None]
  /\ page = [p \in {Handler} |-> None]
  /\ doc = [p \in {Handler} |-> None]
  /\ wait_data = [p \in {Handler} |-> None]
  /\ hospitals = [p \in {Handler} |-> <<>>]
  /\ wait_times = [p \in {Handler} |-> <<>>]
  /\ idx = [p \in {Handler} |-> 0]
  /\ ret = [p \in {Handler} |-> ""]
  /\ last_sms_time = [p \in {Handler} |-> None]
  /\ sms_ret = [p \in {Handler} |-> None]
  /\ sms_outcome = [p \in {Handler} |-> "none"]
  /\ min_gap = None
  /\ last_attempt = None
  /\ cyc = [p \in {Handler} |-> NewCycle]
  /\ fail_at = [p \in {Handler} |-> None]
  /\ insert_failed = [p \in {Handler} |-> {}]
  /\ invocations = 0
  /\ event = None
  /\ result = "none"

\* no Observation is stored yet and the dashboard has made no call
LambdaInit == LambdaInitOn({[n \in CityNames |-> <<>>]}, {NoCall})

\* the invocation ends: with the status result, or failed with exception e; the
\* ErWait object and the locals of capture_data are gone
Finish(outcome) ==
  /\ result' = outcome
  /\ pc' = [pc EXCEPT ![Handler] = "idle"]
  /\ self_city' = [self_city EXCEPT ![Handler] = None]
  /\ page' = [page EXCEPT ![Handler] = None]
  /\ doc' = [doc EXCEPT ![Handler] = None]
  /\ wait_data' = [wait_data EXCEPT ![Handler] = None]

\* capture_data(event): city = event['city']; city_data = ErWait(city)
Invoke(city) ==
  /\ pc[Handler] = "idle"
  /\ invocations < MaxInvocations
  /\ invocations' = invocations + 1
  /\ event' = Some(city)
  /\ cyc' = [cyc EXCEPT ![Handler] = NewCycle]
  /\ pace' = [pace EXCEPT ![Handler] = NoPace]
  /\ LET city_data == ErWait_init(city)
     IN IF city_data.ok
        THEN /\ self_city' = [self_city EXCEPT ![Handler] = city_data.city]
             /\ pc' = [pc EXCEPT ![Handler] = "start"]
             /\ result' = "none"
             /\ UNCHANGED <<page, doc, wait_data>>
        ELSE Finish("ValueError")
  /\ UNCHANGED <<env, csvVars, dash, open_sessions, main, now, db, wake, excn, hospitals, wait_times, idx,
                 smsVars, fail_at, insert_failed>>

\* ErWait.capture_data, lines 232-234: the stagger of Calgary
LambdaStagger ==
  /\ pc[Handler] = "start"
  /\ IF Lower(Val(self_city[Handler])) = S_calgary
     THEN /\ Sleep(Handler, STAGGER_SECS, "stagger_sleep")
          /\ UNCHANGED pace
     ELSE /\ pc' = [pc EXCEPT ![Handler] = "fetch"]
          /\ FetchBegins(Handler)
          /\ UNCHANGED wake
  /\ UNCHANGED <<env, csvVars, dash, open_sessions, main, now, db, excn, self_city, localVars, smsVars,
                 histVars, lambdaVars>>

\* page = self._run_driver(3) returns the page of the discovered URL
LambdaRunDriverReturns ==
  /\ pc[Handler] = "fetch"
  /\ \E html \in Pages : page' = [page EXCEPT ![Handler] = Some(html)]
  /\ pc' = [pc EXCEPT ![Handler] = "parse"]
  /\ cyc' = [cyc EXCEPT ![Handler].fetched = TRUE]
  /\ UNCHANGED <<env, csvVars, dash, open_sessions, pace, main, now, db, wake, excn, self_city, doc, wait_data,
                 hospitals, wait_times, idx, smsVars, fail_at, insert_failed,
                 lambdaVars>>

\* LambdaRunDriverRaises as it would be if the except branch did not re-raise
\* and the handler went on to its return
LambdaRunDriverRaises_Swallowed ==
  /\ pc[Handler] = "fetch"
  /\ Finish("result_0")
  /\ cyc' = [cyc EXCEPT ![Handler].failed = "fetch"]
  /\ UNCHANGED <<env, csvVars, dash, open_sessions, pace, main, now, db, wake, excn, hospitals,
                 wait_times, idx, smsVars, fail_at, insert_failed, invocations,
                 event>>

\* self._run_driver(3) raises: lines 241-244 print and re-raise
LambdaRunDriverRaises ==
  /\ pc[Handler] = "fetch"
  /\ \E e \in FetchErrors, step \in DriverSteps :
       /\ e = "TypeError" => step = "get"
       /\ Finish(e)
       /\ open_sessions' = [open_sessions EXCEPT ![Handler] = SessionsAfterRaise(@, step)]
  /\ cyc' = [cyc EXCEPT ![Handler].failed = "fetch"]
  /\ UNCHANGED <<env, csvVars, dash, pace, main, now, db, wake, excn, hospitals, wait_times, idx,
                 smsVars, fail_at, insert_failed, invocations, event>>

\* doc = BeautifulSoup(page, "html.parser")
LambdaParseReturns ==
  /\ pc[Handler] = "parse"
  /\ doc' = [doc EXCEPT ![Handler] = page[Handler]]
  /\ pc' = [pc EXCEPT ![Handler] = "extract"]
  /\ cyc' = [cyc EXCEPT ![Handler].parsed = TRUE]
  /\ UNCHANGED <<env, csvVars, dash, open_sessions, pace, main, now, db, wake, excn, self_city, page, wait_data,
                 hospitals, wait_times, idx, smsVars, fail_at, insert_failed,
                 lambdaVars>>

\* BeautifulSoup raises: lines 249-252 print and re-raise
LambdaParseRaises ==
  /\ pc[Handler] = "parse"
  /\ Finish("ParserError")
  /\ cyc' = [cyc EXCEPT ![Handler].failed = "parse"]
  /\ UNCHANGED <<env, csvVars, dash, open_sessions, pace, main, now, db, wake, excn, hospitals, wait_times, idx,
                 smsVars, fail_at, insert_failed, invocations, event>>

\* wait_data, now = self._get_wait_data(doc)
LambdaExtract ==
  /\ pc[Handler] = "extract"
  /\ LET r == get_wait_data(Val(doc[Handler]), Val(self_city[Handler]), now)
     IN IF r.ok
        THEN /\ wait_data' = [wait_data EXCEPT ![Handler] = Some(r.data)]
             /\ pc' = [pc EXCEPT ![Handler] = "persist"]
             /\ cyc' = [cyc EXCEPT ![Handler].extracted = TRUE]
             /\ UNCHANGED <<self_city, page, doc, result>>
        ELSE /\ Finish("AttributeError")
             /\ cyc' = [cyc EXCEPT ![Handler].failed = "section"]
  /\ UNCHANGED <<env, csvVars, dash, open_sessions, pace, main, now, db, wake, excn, hospitals, wait_times, idx,
                 smsVars, fail_at, insert_failed, invocations, event>>

\* self._write_db(wait_data): the insert succeeds
LambdaWriteDbReturns ==
  /\ pc[Handler] = "persist"
  /\ InsertBegins(Handler)
  /\ db' = [db EXCEPT ![Val(self_city[Handler])] = Append(@, Val(wait_data[Handler]))]
  /\ cyc' = [cyc EXCEPT ![Handler].persisted = TRUE]
  /\ pc' = [pc EXCEPT ![Handler] = "return"]
  /\ UNCHANGED <<env, csvVars, dash, open_sessions, main, now, wake, excn, self_city, localVars, smsVars,
                 fail_at, insert_failed, lambdaVars>>

\* the insert raises: lines 220-222 print the message and go on
LambdaWriteDbRaises ==
  /\ pc[Handler] = "persist"
  /\ InsertBegins(Handler)
  /\ insert_failed' = [insert_failed EXCEPT ![Handler] = @ \cup {Val(wait_data[Handler])}]
  /\ cyc' = [cyc EXCEPT ![Handler].persisted = TRUE, ![Handler].failed = "persist"]
  /\ pc' = [pc EXCEPT ![Handler] = "return"]
  /\ UNCHANGED <<env, csvVars, dash, open_sessions, main, now, db, wake, excn, self_city, localVars, smsVars,
                 fail_at, lambdaVars>>

\* LambdaReturn as it would be if capture_data looped like the long-running
\* variant: another cycle instead of the return
LambdaReturn_Again ==
  /\ pc[Handler] = "return"
  /\ pc' = [pc EXCEPT ![Handler] = "start"]
  /\ UNCHANGED <<env, csvVars, dash, open_sessions, pace, main, now, db, wake, excn, self_city,
                 localVars, smsVars, histVars, lambdaVars>>

\* return {'result': 0}
LambdaReturn ==
  /\ pc[Handler] = "return"
  /\ Finish("result_0")
  /\ UNCHANGED <<env, csvVars, dash, open_sessions, pace, main, now, db, wake, excn, hospitals, wait_times, idx,
                 smsVars, histVars, invocations, event>>

LambdaNext ==
  \/ \E city \in CityNames : Invoke(city)
  \/ LambdaStagger
  \/ Tick
  \/ WakeUp(Handler)
  \/ LambdaRunDriverReturns
  \/ LambdaRunDriverRaises
  \/ LambdaParseReturns
  \/ LambdaParseRaises
  \/ LambdaExtract
  \/ LambdaWriteDbReturns
  \/ LambdaWriteDbRaises
  \/ LambdaReturn

LambdaSpec == LambdaInit /\ [][LambdaNext]_vars

---------------------------------------------------------------------------
(* _get_wait_data of both variants, run on documents drawn from a bounded set *)

\* hospitalName nodes a section may hold
NameNodes == {NameNode(<<"A">>), NameNode(<<"B", ".">>), NoAnchorNode}

\* wt-times nodes a section may hold: two valid blocks, blocks of 0, 1 and 3
\* strong tags, and a block of two whose hours are not a number
WtBlocks ==
  { <<Some(<<"1">>), Some(<<"3","0">>)>>,
    <<Some(<<"0">>), Some(<<"5">>)>>,
    <<>>,
    <<Some(<<"7">>)>>,
    <<Some(<<"1">>), Some(<<"2">>), Some(<<"3">>)>>,
    <<Some(<<"x">>), Some(<<"5">>)>> }

SeqsUpTo(S, n) == UNION {[1..k -> S] : k \in 0..n}

\* the documents _get_wait_data is run on
ExtractDocs ==
  {BothCities(names, times) : names \in SeqsUpTo(NameNodes, MaxHospitals),
                              times \in SeqsUpTo(WtBlocks, MaxHospitals)}
    \cup {PageNoSection}

\* the long-running poller of Calgary and the on-demand handler
Extractors == {"t_yyc", Handler}

\* both are about to call self._get_wait_data(doc) on the same document,
\* one of docs, in a process environment that is one of envs
ExtractInitOn(envs, docs) ==
  /\ env \in envs
  /\ main = "running"
  /\ now = 0
  /\ LAST_SMS_TIME = None
  /\ db = [n \in CityNames |-> <<>>]
  /\ csv_file = None
  /\ csv_written = <<>>
  /\ dash = NoCall
  /\ open_sessions = [p \in Extractors |-> 0]
  /\ pace = [p \in Extractors |-> NoPace]
  /\ pc = [p \in Extractors |-> "extract"]
  /\ wake = [p \in Extractors |-> 0]
  /\ excn = [p \in Extractors |-> ""]
  /\ self_city = [p \in Extractors |->
                    IF p = Handler THEN Some(<<"e","D","M","O","N","T","O","N">>)
                    ELSE Some(S_Calgary)]
  /\ \E d \in docs :
       /\ page = [p \in Extractors |-> Some(d)]
       /\ doc = [p \in Extractors |-> Some(d)]
  /\ wait_data = [p \in Extractors |-> None]
  /\ hospitals = [p \in Extractors |-> <<>>]
  /\ wait_times = [p \in Extractors |-> <<>>]
  /\ idx = [p \in Extractors |-> 0]
  /\ ret = [p \in Extractors |-> ""]
  /\ last_sms_time = [p \in Extractors |-> None]
  /\ sms_ret = [p \in Extractors |-> None]
  /\ sms_outcome = [p \in Extractors |-> "none"]
  /\ min_gap = None
  /\ last_attempt = None
  /\ cyc = [p \in Extractors |-> [NewCycle EXCEPT !.fetched = TRUE, !.parsed = TRUE]]
  /\ fail_at = [p \in Extractors |-> None]
  /\ insert_failed = [p \in Extractors |-> {}]
  /\ invocations = 1
  /\ event = self_city[Handler]
  /\ result = "none"

ExtractInit == ExtractInitOn({RequiredEnv}, ExtractDocs)

ExtractNext ==
  \/ ExtractBegin("t_yyc")
  \/ ExtractNameRaises("t_yyc")
  \/ ExtractWaitRaises("t_yyc")
  \/ ExtractEntry("t_yyc")
  \/ ExtractReturns("t_yyc")
  \/ SmsRead("t_yyc")
  \/ SendSms("t_yyc")
  \/ SmsWrite("t_yyc")
  \/ LambdaExtract

ExtractSpec == ExtractInit /\ [][ExtractNext]_vars

---------------------------------------------------------------------------
(* _write_csv, run on Observations drawn from a bounded set *)

\* str(n) of an int
RECURSIVE DecimalString(_)
DecimalString(n) ==
  IF n < 0 THEN <<"-">> \o DecimalString(0 - n)
  ELSE IF n < 10 THEN <<Digits[n + 1]>>
  ELSE DecimalString(n \div 10) \o <<Digits[(n % 10) + 1]>>

\* list(data.keys())
Keys(d) == [j \in DOMAIN d |-> d[j][1]]

\* what the csv writer puts in a cell: '' for None, the text of a str, str(n)
\* of an int (a time stamp is text)
Cell(v) ==
  IF v = None THEN <<>>
  ELSE IF Len(v) = 2 THEN v
  ELSE DecimalString(Val(v))

\* writer.writeheader(): the field names (a name that is None gives '')
HeaderRow(fields) ==
  [kind |-> "header",
   cells |-> [j \in DOMAIN fields |-> IF IsNone(fields[j]) THEN <<>> ELSE Val(fields[j])]]

\* writer.writerows([data]): the values of data in the order of fieldnames
DataRow(fields, data) ==
  [kind |-> "data", cells |-> [j \in DOMAIN fields |-> Cell(DictGet(data, fields[j]))]]

\* the hospital names and waits of the Observations given to _write_csv
CsvEntries ==
  { <<<<Some(<<"A">>), Some(<<"B", "*">>)>>, <<Some(5), Some(90)>>>>,
    <<<<Some(<<"A">>), Some(<<"B", "*">>)>>, <<None, Some(90)>>>>,
    <<<<Some(<<"A">>), Some(<<"B", "*">>)>>, <<Some(90), None>>>>,
    <<<<Some(<<"B", "*">>), Some(<<"A">>)>>, <<Some(90), Some(5)>>>>,
    <<<<Some(<<"A">>)>>, <<Some(5)>>>> }

\* WriteCsv as it would be if every call wrote the header
WriteCsv_AlwaysHeader(data) ==
  /\ Len(csv_written) < MaxWrites
  /\ LET fields == Keys(data)
         rows == IF IsNone(csv_file) THEN <<>> ELSE Val(csv_file)
     IN csv_file' = Some(rows \o <<HeaderRow(fields), DataRow(fields, data)>>)
  /\ csv_written' = Append(csv_written, data)
  /\ UNCHANGED <<env, dash, main, now, db, open_sessions, pace, procVars,
                 localVars, smsVars, histVars, lambdaVars>>

\* self._write_csv(data)
WriteCsv(data) ==
  /\ Len(csv_written) < MaxWrites
  /\ LET fields == Keys(data)
     IN IF IsNone(csv_file)
        THEN csv_file' = Some(<<HeaderRow(fields), DataRow(fields, data)>>)
        ELSE csv_file' = Some(Append(Val(csv_file), DataRow(fields, data)))
  /\ csv_written' = Append(csv_written, data)
  /\ UNCHANGED <<env, dash, main, now, db, open_sessions, pace, procVars,
                 localVars, smsVars, histVars, lambdaVars>>

\* no stats file yet
CsvInit == LambdaInit

\* one Observation per polling interval is written
CsvNext ==
  \E e \in CsvEntries :
    WriteCsv(observation(e[1], e[2], Len(csv_written) * POLLING_INTERVAL))

CsvSpec == CsvInit /\ [][CsvNext]_vars

---------------------------------------------------------------------------
(* plot_er_wait_stats.py: get_mongodb_df and its caller plot_line, reading  *)
(* the datastore that the on-demand variant fills                           *)

\* def sms_exception_message(msg, e, last_sms_time): positional parameters
SmsExceptionMessageParams == 3

\* sms_exception_message(msg, e) in the except branch of get_mongodb_df
GetMongodbDfSmsArgs == 2

\* list(collection.find()): the stored documents, each with the _id field the
\* datastore gave it, first
Find(city) ==
  [j \in DOMAIN db[city] |-> << <<Some(<<"_", "i", "d">>), <<"oid", j>> >> >> \o db[city][j]]

\* the columns of pd.DataFrame(docs): the keys in the order first met
RECURSIVE Columns(_, _)
Columns(docs, acc) ==
  IF docs = <<>> THEN acc
  ELSE LET ks == Keys(Head(docs))
           fresh == SelectSeq(ks, LAMBDA k : \A j \in DOMAIN acc : acc[j] # k)
       IN Columns(Tail(docs), acc \o fresh)

\* pd.DataFrame(docs).iloc[:, 1:]: the first column is dropped; a document
\* without a column's key, or with None for it, has no value there (None)
DataFrame(docs) ==
  LET cols == Columns(docs, <<>>)
      kept == IF cols = <<>> THEN <<>> ELSE Tail(cols)
  IN [columns |-> kept,
      rows |-> [j \in DOMAIN docs |->
                  [c \in DOMAIN kept |->
                     IF DictHas(docs[j], kept[c]) THEN DictGet(docs[j], kept[c])
                     ELSE None]]]

\* what a call with given positional arguments of a function with params
\* parameters, none of them with a default, does before its body runs
CallBinds(given, params) == given = params

\* get_mongodb_df(city) when every step of the read succeeds: return df
get_mongodb_df_returns(city) == [excn |-> "", df |-> Some(DataFrame(Find(city)))]

\* get_mongodb_df(city) when a step of the read raises: the except branch
\* calls sms_exception_message(msg, e); the function then ends without a
\* return statement (None), unless the call in the except branch raises
get_mongodb_df_except ==
  IF CallBinds(GetMongodbDfSmsArgs, SmsExceptionMessageParams)
  THEN [excn |-> "", df |-> None]
  ELSE [excn |-> "TypeError", df |-> None]

\* plot_line(city, ...) when the datastore read succeeds: the figure is built
PlotLineReads(city) ==
  /\ LET r == get_mongodb_df_returns(city)
     IN dash' = [city |-> Some(city), read |-> "ok", df |-> r.df, excn |-> r.excn,
                 fig |-> "figure"]
  /\ UNCHANGED <<env, csvVars, main, now, db, open_sessions, pace, procVars,
                 localVars, smsVars, histVars, lambdaVars>>

\* plot_line(city, ...) when the datastore read fails: `if df is None: return
\* None` is reached only if get_mongodb_df returned
PlotLineReadFails(city) ==
  /\ LET r == get_mongodb_df_except
     IN dash' = [city |-> Some(city), read |-> "failed", df |-> r.df, excn |-> r.excn,
                 fig |-> IF r.excn = "" THEN "None" ELSE "none"]
  /\ UNCHANGED <<env, csvVars, main, now, db, open_sessions, pace, procVars,
                 localVars, smsVars, histVars, lambdaVars>>

\* the cities the dashboard plots
PlotCities == {S_Calgary, S_Edmonton}

DashNext ==
  \/ LambdaNext
  \/ \E city \in PlotCities : PlotLineReads(city)
  \/ \E city \in PlotCities : PlotLineReadFails(city)

DashSpec == LambdaInit /\ [][DashNext]_vars

---------------------------------------------------------------------------
(* Claims *)

NotifierPcs == {"sms_read", "sms_send", "sms_write"}

Dispatched(p) == sms_outcome[p] \in {"sent", "client_error", "create_error", "env_error"}

\* the documents of a collection
Stored(name) == {db[name][j] : j \in DOMAIN db[name]}

\* the time stamp of an Observation
TimeOf(o) == DictGet(o, Some(S_time_stamp))[2]

\* C1: failure events less than 24 hours apart cause one SMS dispatch attempt
\* only: with the configuration complete, a dispatch attempt (made while no
\* other notifier call is going on) comes more than one day after the attempt
\* before it.
C1_Throttle ==
  env = RequiredEnv => (IsNone(min_gap) \/ Val(min_gap) > ONE_DAY)

\* C2: when both pollers are in the notifier at the same time (configuration
\* complete), at most one of them dispatches an SMS, whatever the interleaving
\* of their steps.
C2_NoDoubleSend ==
  \A p, q \in Threads :
    (env = RequiredEnv /\ p # q /\ pc[p] = "sms_write" /\ pc[q] = "sms_write")
      => ~(Dispatched(p) /\ Dispatched(q))

C4_MissingSection ==
  \A p \in Threads :
    cyc[p].failed = "section" => (cyc[p].notified /\ pc[p] # "dead")

\* C5: with every configuration value present, no failure of a cycle ends a
\* poller thread.
C5_NeverTerminates ==
  \A p \in Threads : env = RequiredEnv => pc[p] # "dead"

\* C6 as claimed: an Observation whose insert failed is stored by the time the
\* datastore has accepted a later insert into the same collection.
C6_AtLeastOnce ==
  \A p \in Threads : \A o \in insert_failed[p] :
    (\E o2 \in Stored(Val(self_city[p])) : TimeOf(o2) > TimeOf(o))
      => o \in Stored(Val(self_city[p]))

\* C6 as amended: an Observation whose insert failed is never stored (it is not
\* inserted again), no Observation is stored twice, and the failed insert was
\* notified.
C6_NoRetry ==
  \A p \in Threads :
    /\ \A o \in insert_failed[p] : o \notin Stored(Val(self_city[p]))
    /\ ~IsNone(self_city[p]) =>
         \A j, k \in DOMAIN db[Val(self_city[p])] :
           j # k => db[Val(self_city[p])][j] # db[Val(self_city[p])][k]
    /\ cyc[p].failed = "persist" => cyc[p].notified

\* an insert failed, and a later cycle of the same poller stored its Observation
C6_Witness ==
  \E p \in Threads : \E o \in insert_failed[p] :
    /\ pc[p] = "sleeping"
    /\ \E o2 \in Stored(Val(self_city[p])) : TimeOf(o2) > TimeOf(o)

\* C7: a cycle whose insert failed has notified and its poller is not ended.
C7_PersistFailure ==
  \A p \in Threads :
    cyc[p].failed = "persist" => (cyc[p].notified /\ pc[p] # "dead")

\* C8: no poller is ended by an exception of the notifier (the only KeyError
\* of the program after start-up is that of send_sms).
C8_NotifierNeverRaises == \A p \in Threads : excn[p] # "KeyError"

\* C9: when a required configuration value is absent, no poll cycle begins.
C9_FatalAtStartup ==
  env # RequiredEnv => \A p \in Threads : pc[p] = "unborn"

\* the spellings among CityNames that are "calgary" or "edmonton" in some case
AcceptedSpellings ==
  {<<"C","a","l","g","a","r","y">>, <<"c","a","l","g","a","r","y">>,
   <<"C","A","L","G","A","R","Y">>, <<"E","d","m","o","n","t","o","n">>,
   <<"e","D","M","O","N","T","O","N">>}

\* C10: an ErWait object exists only for a name that is "calgary" or "edmonton"
\* in some letter case; an invocation with such a name has its object with the
\* name as given and does not end in ValueError; with any other name it ends in
\* ValueError with no object and no step of a poll cycle.
C10_CityValidation ==
  /\ \A p \in DOMAIN self_city :
       ~IsNone(self_city[p]) => Val(self_city[p]) \in AcceptedSpellings
  /\ ~IsNone(event) =>
       IF Val(event) \in AcceptedSpellings
       THEN /\ result # "ValueError"
            /\ pc[Handler] # "idle" => self_city[Handler] = event
       ELSE /\ result = "ValueError"
            /\ pc[Handler] = "idle"
            /\ IsNone(self_city[Handler])
            /\ cyc[Handler] = NewCycle

\* an upper-case spelling was accepted and its cycle stored an Observation, and
\* a later invocation with another name ended in ValueError
C10_Witness ==
  /\ db[<<"C","A","L","G","A","R","Y">>] # <<>>
  /\ result = "ValueError"
  /\ event = Some(<<"R","e","d"," ","D","e","e","r">>)


---------------------------------------------------------------------------
(* Claims about _get_wait_data, stated on ExtractSpec *)

\* the city section of the document an extractor was given (all sections of a
\* document of ExtractDocs list the same nodes)
HasSection(p) == ~IsNone(doc[p]) /\ Val(doc[p]) # <<>>

GivenNames(p) == IF HasSection(p) THEN Val(doc[p])[1].hospitalName ELSE <<>>

GivenBlocks(p) == IF HasSection(p) THEN Val(doc[p])[1].wt_times ELSE <<>>

\* a posted wait of 1 h 30 min, and one of 0 h 5 min
Block90 == <<Some(<<"1">>), Some(<<"3","0">>)>>

Block5 == <<Some(<<"0">>), Some(<<"5">>)>>

\* the wait in minutes the specification gives a block: hours * 60 + minutes
\* for a valid block, unknown otherwise
ClaimedMinutes(block) ==
  IF block = Block90 THEN Some(90) ELSE IF block = Block5 THEN Some(5) ELSE None

\* the field key the specification gives a hospital node with a display name
ClaimedKey(node) ==
  IF node = NameNode(<<"A">>) THEN Some(<<"A">>) ELSE Some(<<"B", "*">>)

\* the extractor has returned its Observation to capture_data
Extracted(p) == pc[p] = "persist" /\ ~IsNone(wait_data[p])

\* C11: for a section listing n hospitals with distinct display names, each
\* with a valid (hours, minutes) block, the Observation is the time_stamp field
\* followed by exactly one field per hospital, in page order, whose value is
\* hours * 60 + minutes of the block at the hospital's position.
C11_Extraction ==
  \A p \in DOMAIN pc :
    ( /\ Extracted(p)
      /\ Len(GivenNames(p)) = Len(GivenBlocks(p))
      /\ \A j \in DOMAIN GivenNames(p) : GivenNames(p)[j] # NoAnchorNode
      /\ \A j \in DOMAIN GivenBlocks(p) : GivenBlocks(p)[j] \in {Block90, Block5}
      /\ \A j, k \in DOMAIN GivenNames(p) :
           j # k => GivenNames(p)[j] # GivenNames(p)[k] )
    => Val(wait_data[p]) =
         << <<Some(S_time_stamp), <<"ts", now>> >> >> \o
         [j \in DOMAIN GivenNames(p) |->
            <<ClaimedKey(GivenNames(p)[j]), ClaimedMinutes(GivenBlocks(p)[j])>>]

\* both extractors have returned the Observation of a section that lists "B."
\* with 0 h 5 min and then "A" with 1 h 30 min
C11_Witness ==
  /\ \A p \in DOMAIN pc : Extracted(p)
  /\ GivenNames("t_yyc") = <<NameNode(<<"B", ".">>), NameNode(<<"A">>)>>
  /\ GivenBlocks("t_yyc") = <<Block5, Block90>>
  /\ DictGet(Val(wait_data[Handler]), Some(<<"A">>)) = Some(90)

\* the position of the zip loop whose pass called the notifier
NotifyingPosition(p) == idx[p] - 1

\* C12: a block of other than two strong tags gives the unknown value for the
\* hospital at its position, ends no extractor with an error and causes no
\* notifier call; the value of every hospital is that of the block at its own
\* position, whatever blocks precede it.
C12_MalformedIsLocal ==
  \A p \in DOMAIN pc :
    /\ HasSection("t_yyc") => (excn[p] = "" /\ result = "none")
    /\ (pc[p] \in NotifierPcs /\ ret[p] = "extract_loop") =>
         \/ GivenNames(p)[NotifyingPosition(p)] = NoAnchorNode
         \/ Len(GivenBlocks(p)[NotifyingPosition(p)]) = 2
    /\ p = Handler => pc[p] \notin NotifierPcs
    /\ Extracted(p) =>
         \A j \in 1..Min(Len(GivenNames(p)), Len(GivenBlocks(p))) :
           ( /\ GivenNames(p)[j] # NoAnchorNode
             /\ \A k \in (j + 1)..Min(Len(GivenNames(p)), Len(GivenBlocks(p))) :
                  GivenNames(p)[k] # GivenNames(p)[j] )
           => DictGet(Val(wait_data[p]), ClaimedKey(GivenNames(p)[j]))
                = ClaimedMinutes(GivenBlocks(p)[j])

\* a block of three strong tags was followed by a valid block: the first
\* hospital has the unknown value and the second its 90 minutes, and nothing
\* was notified
C12_Witness ==
  /\ \A p \in DOMAIN pc : Extracted(p) /\ ~cyc[p].notified
  /\ GivenNames("t_yyc") = <<NameNode(<<"A">>), NameNode(<<"B", ".">>)>>
  /\ GivenBlocks("t_yyc") =
       << <<Some(<<"1">>), Some(<<"2">>), Some(<<"3">>)>>, Block90 >>
  /\ \A p \in DOMAIN pc :
       /\ DictGet(Val(wait_data[p]), Some(<<"A">>)) = None
       /\ DictGet(Val(wait_data[p]), Some(<<"B", "*">>)) = Some(90)

\* the keys of an Observation that are hospital names
HospitalKeys(o) ==
  {o[j][1] : j \in {k \in DOMAIN o : ~IsNone(o[k][1]) /\ o[k][1] # Some(S_time_stamp)}}

\* C13: no hospital key of an Observation handed to the persistence step holds
\* the character '.', and a listed name "B." is there as "B*".
C13_NoDotInKeys ==
  \A p \in DOMAIN pc :
    Extracted(p) =>
      /\ \A key \in HospitalKeys(Val(wait_data[p])) :
           \A k \in DOMAIN Val(key) : Val(key)[k] # "."
      /\ (\E j \in 1..Min(Len(GivenNames(p)), Len(GivenBlocks(p))) :
            GivenNames(p)[j] = NameNode(<<"B", ".">>))
           => Some(<<"B", "*">>) \in HospitalKeys(Val(wait_data[p]))

\* both extractors hold an Observation of a section that lists "B."
C13_Witness ==
  \A p \in DOMAIN pc :
    /\ Extracted(p)
    /\ \E j \in 1..Min(Len(GivenNames(p)), Len(GivenBlocks(p))) :
         GivenNames(p)[j] = NameNode(<<"B", ".">>)
    /\ DictHas(Val(wait_data[p]), Some(<<"B", "*">>))


---------------------------------------------------------------------------
(* Claims about the page fetcher and the pacing of cycles *)

\* C14: whenever no call of _run_driver is in progress, no browser session that
\* a call started is still open: each call has quit its browser by the time it
\* returns or raises.
C14_SessionsReleased == \A p \in DOMAIN pc : open_sessions[p] = 0


\* C15: a poller takes no step of a later cycle before the polling-interval
\* sleep that ended its cycle is over, and two calls of _run_driver by the same
\* poller begin at least one polling interval apart.
C15_CycleOrdering ==
  \A p \in Threads :
    /\ (pc[p] # "sleeping" /\ ~IsNone(pace[p].sleep_end)) =>
         now >= Val(pace[p].sleep_end)
    /\ \A j \in 1..(Len(pace[p].fetches) - 1) :
         pace[p].fetches[j + 1] - pace[p].fetches[j] >= POLLING_INTERVAL

\* a poller has begun its second fetch after a cycle that stored its Observation
C15_Witness ==
  \E p \in Threads :
    /\ Len(pace[p].fetches) = 2
    /\ IsNone(fail_at[p])
    /\ db[Val(self_city[p])] # <<>>
    /\ insert_failed[p] = {}


---------------------------------------------------------------------------
(* Claims about the on-demand variant, stated on LambdaSpec *)

\* every stage of the cycle was carried out; the insert may have failed
CycleFinished(c) ==
  /\ c.fetched /\ c.parsed /\ c.extracted /\ c.persisted
  /\ c.failed \in {"none", "persist"}

\* C16: an invocation calls _run_driver at most once and _write_db at most
\* once; the status result is there only when the handler has returned, after
\* exactly one fetch and one persistence attempt of a finished cycle.
C16_OneCycle ==
  /\ Len(pace[Handler].fetches) <= 1
  /\ pace[Handler].inserts <= 1
  /\ pc[Handler] # "idle" => result = "none"
  /\ result = "result_0" =>
       /\ Val(event) \in AcceptedSpellings
       /\ Len(pace[Handler].fetches) = 1
       /\ pace[Handler].inserts = 1
       /\ CycleFinished(cyc[Handler])

\* the second invocation has returned the status result, both having stored
\* an Observation of Edmonton
C16_Witness ==
  /\ result = "result_0"
  /\ invocations = 2
  /\ Len(db[S_Edmonton]) = 2
  /\ pc[Handler] = "idle"


---------------------------------------------------------------------------
(* Claims about _write_csv, stated on CsvSpec *)

\* the set of the field names of an Observation
FieldSet(o) == {o[j][1] : j \in DOMAIN o}

SameFieldSets == \A j \in DOMAIN csv_written : FieldSet(csv_written[j]) = FieldSet(csv_written[1])

\* C18: after k calls of _write_csv with Observations of one field set, on a
\* file that did not exist, the file holds one header row, its first, and then
\* k data rows, the row of each call holding that call's time stamp and values.
C18_CsvAppend ==
  (csv_written # <<>> /\ SameFieldSets) =>
    LET rows == Val(csv_file)
    IN /\ Len(rows) = Len(csv_written) + 1
       /\ rows[1].kind = "header"
       /\ FieldSet(csv_written[1]) = {Some(rows[1].cells[j]) : j \in DOMAIN rows[1].cells}
       /\ \A j \in DOMAIN csv_written :
            /\ rows[j + 1].kind = "data"
            /\ rows[j + 1].cells[1] = <<"ts", (j - 1) * POLLING_INTERVAL>>
            /\ {rows[j + 1].cells[k] : k \in 2..Len(rows[j + 1].cells)} =
                 {Cell(csv_written[j][k][2]) : k \in 2..Len(csv_written[j])}

\* three Observations of one field set were written
C18_Witness ==
  /\ Len(csv_written) = 3
  /\ SameFieldSets
  /\ Len(Val(csv_file)) = 4
  /\ csv_written[1] # csv_written[2]


---------------------------------------------------------------------------
(* Claims about the plotting module, stated on DashSpec *)

\* C19: a call whose datastore read succeeded has a DataFrame; a call whose
\* read failed ended in no exception: get_mongodb_df returned None and
\* plot_line returned None.
C19_ReadFailureGivesNone ==
  /\ dash.read = "ok" => (~IsNone(dash.df) /\ dash.excn = "")
  /\ dash.read = "failed" =>
       (dash.excn = "" /\ IsNone(dash.df) /\ dash.fig = "None")


---------------------------------------------------------------------------
(* Claims about the throttle state, stated on Spec *)

\* C20: while no notifier call is in progress (configuration complete), the
\* throttle timestamp LAST_SMS_TIME is absent if no SMS dispatch was ever
\* attempted and is otherwise the time of the latest dispatch attempt.
C20_ThrottleState ==
  (env = RequiredEnv /\ \A p \in DOMAIN pc : pc[p] \notin NotifierPcs) =>
    LAST_SMS_TIME = last_attempt

---------------------------------------------------------------------------
(* _get_wait_data run on one hospital whose block has two strong tags, the  *)
(* text of each drawn from the short strings over a few characters.         *)

MaxTextLen == 2

\* characters of a strong tag's text: a sign, two digits, a blank, a letter
TextChars == {"-", "1", "0", " ", "x"}

\* what .string of a strong tag can be: a text, or None for a tag holding tags
StrongStrings == {Some(t) : t \in SeqsUpTo(TextChars, MaxTextLen)} \cup {None}

TextBlocks == {<<h, m>> : h \in StrongStrings, m \in StrongStrings}

TextDocs ==
  {BothCities(<<n>>, <<b>>) : n \in {NameNode(<<"A">>), NoAnchorNode},
                              b \in TextBlocks}

TextInit == ExtractInitOn({RequiredEnv}, TextDocs)

TextSpec == TextInit /\ [][ExtractNext]_vars

\* the values an Observation holds for its hospitals
HospitalValues(o) ==
  {o[j][2] : j \in {k \in DOMAIN o : o[k][1] # Some(S_time_stamp)}}

\* C21: every hospital value of an Observation is the unknown value or a
\* non-negative number of minutes, whatever text the two strong tags carry.
C21_NonNegative ==
  \A p \in DOMAIN pc :
    Extracted(p) =>
      \A v \in HospitalValues(Val(wait_data[p])) : IsNone(v) \/ Val(v) >= 0

---------------------------------------------------------------------------
(* _get_wait_data run on the documents of ExtractDocs, in the complete      *)
(* environment and in one that lacks a Twilio credential.                   *)

CredEnvs == {RequiredEnv, RequiredEnv \ {"TWILIO_ACCOUNT_SID"}}

CredInit == ExtractInitOn(CredEnvs, ExtractDocs)

CredSpec == CredInit /\ [][ExtractNext]_vars

\* the zip loop's pass at position j of p's section ends in the except branch
\* of int()
IntFails(p, j) ==
  /\ j \in 1..Min(Len(GivenNames(p)), Len(GivenBlocks(p)))
  /\ hospital_name(GivenNames(p)[j]).ok
  /\ wait_minutes(GivenBlocks(p)[j]).err

\* C22: a block of two strong tags whose text is not an integer is a local
\* failure: the extractor is not ended by the pass that met it, and the
\* Observation holds the unknown value at that position and, at every other
\* position with a readable name (the last of its name), the value of the
\* block there.
C22_IntFailureIsLocal ==
  \A p \in DOMAIN pc :
    /\ (ret[p] = "extract_loop" /\ IntFails(p, NotifyingPosition(p))) =>
         pc[p] # "dead"
    /\ Extracted(p) =>
         \A j \in 1..Min(Len(GivenNames(p)), Len(GivenBlocks(p))) :
           ( /\ hospital_name(GivenNames(p)[j]).ok
             /\ \A k \in (j + 1)..Min(Len(GivenNames(p)), Len(GivenBlocks(p))) :
                  GivenNames(p)[k] # GivenNames(p)[j] )
           => DictGet(Val(wait_data[p]), ClaimedKey(GivenNames(p)[j]))
                = IF IntFails(p, j) THEN None ELSE ClaimedMinutes(GivenBlocks(p)[j])

\* C23: the name list and the wait-time list of the zip loop grow in lock
\* step: after every pass both hold one entry per position passed; a position
\* whose name cannot be read has None in both, and every other position has
\* its own name with the value of the block at the same position, also after
\* a position whose name could not be read.
C23_LockStep ==
  \A p \in DOMAIN pc :
    idx[p] >= 1 =>
      /\ Len(hospitals[p]) = idx[p] - 1
      /\ Len(wait_times[p]) = idx[p] - 1
      /\ \A j \in 1..(idx[p] - 1) :
           IF GivenNames(p)[j] = NoAnchorNode
           THEN hospitals[p][j] = None /\ wait_times[p][j] = None
           ELSE /\ hospitals[p][j] = ClaimedKey(GivenNames(p)[j])
                /\ wait_times[p][j] = ClaimedMinutes(GivenBlocks(p)[j])

\* the loop has passed a hospital without anchor and then "A" with 1 h 30 min:
\* the lists are <<None, "A">> and <<None, 90>>
C23_Witness ==
  /\ pc["t_yyc"] = "extract_loop"
  /\ GivenNames("t_yyc") = <<NoAnchorNode, NameNode(<<"A">>)>>
  /\ GivenBlocks("t_yyc") = <<Block5, Block90>>
  /\ hospitals["t_yyc"] = <<None, Some(<<"A">>)>>
  /\ wait_times["t_yyc"] = <<None, Some(90)>>

\* the positions of p's section the zip loop visits
Paired(p) == 1..Min(Len(GivenNames(p)), Len(GivenBlocks(p)))

\* p's section lists names and blocks in different numbers, and at the
\* positions both lists have, the names are readable and distinct and no block
\* holds text that is not a number
Mismatch(p) ==
  /\ HasSection(p)
  /\ Len(GivenNames(p)) # Len(GivenBlocks(p))
  /\ \A j \in Paired(p) : GivenNames(p)[j] # NoAnchorNode /\ ~IntFails(p, j)
  /\ \A j, k \in Paired(p) : j # k => GivenNames(p)[j] # GivenNames(p)[k]

\* C24: when a section lists n names and m blocks, n # m, the extractor is not
\* ended by an error and calls no notifier, and its Observation is the
\* time_stamp field followed by one field for each of the first min(n, m)
\* positions, the name there with the value of the block there, and no other.
C24_Truncation ==
  \A p \in DOMAIN pc :
    Mismatch(p) =>
      /\ pc[p] \notin NotifierPcs \cup {"dead"}
      /\ ~cyc[p].notified
      /\ Extracted(p) =>
           Val(wait_data[p]) =
             << <<Some(S_time_stamp), <<"ts", now>> >> >> \o
             [j \in Paired(p) |->
                <<ClaimedKey(GivenNames(p)[j]), ClaimedMinutes(GivenBlocks(p)[j])>>]

\* a section of two names, the second without anchor, and the one block 1 h 30
\* min: both extractors returned the time stamp and "A" = 90 only, unnotified,
\* in the environment without the credential
C24_Witness ==
  /\ env # RequiredEnv
  /\ GivenNames("t_yyc") = <<NameNode(<<"A">>), NoAnchorNode>>
  /\ GivenBlocks("t_yyc") = <<Block90>>
  /\ \A p \in DOMAIN pc :
       /\ Extracted(p)
       /\ Len(Val(wait_data[p])) = 2
       /\ DictGet(Val(wait_data[p]), Some(<<"A">>)) = Some(90)

\* the time before which p's current cycle cannot have begun: the end of its
\* last end-of-cycle sleep, or the start of the program
CycleBase(p) ==
  IF IsNone(pace[p].sleep_end) THEN 0 ELSE Val(pace[p].sleep_end)

\* p's k-th call of _run_driver is made gap seconds or more after the one before
FetchesApart(p, gap) ==
  \A k \in 2..Len(pace[p].fetches) :
    pace[p].fetches[k] - pace[p].fetches[k - 1] >= gap

C25_State ==
  /\ pc["t_yeg"] # "stagger_sleep"
  /\ pc["t_yyc"] = "stagger_sleep" =>
       /\ wake["t_yyc"] - STAGGER_SECS <= now
       /\ wake["t_yyc"] - STAGGER_SECS >= CycleBase("t_yyc")
  /\ pace["t_yyc"].fetches # <<>> =>
       /\ pace["t_yeg"].fetches # <<>>
       /\ pace["t_yeg"].fetches[1] < pace["t_yyc"].fetches[1]
  /\ FetchesApart("t_yyc", POLLING_INTERVAL + STAGGER_SECS)
  /\ FetchesApart("t_yeg", POLLING_INTERVAL)

C25_Step ==
  /\ Len(pace'["t_yyc"].fetches) > Len(pace["t_yyc"].fetches) =>
       pc["t_yyc"] = "stagger_sleep" /\ now >= wake["t_yyc"]
  /\ Len(pace'["t_yeg"].fetches) > Len(pace["t_yeg"].fetches) =>
       pc["t_yeg"] = "loop"

PollerState(p) ==
  <<pc[p], wake[p], excn[p], self_city[p], page[p], doc[p], wait_data[p],
    hospitals[p], wait_times[p], idx[p], ret[p], last_sms_time[p], sms_ret[p]>>

\* the step inserts into the collection named n
InsertsInto(n) == db'[n] # db[n]

C26_Step ==
  main = "running" =>
    /\ \A n \in CityNames :
         InsertsInto(n) =>
           /\ \E p \in Threads :
                /\ pc[p] = "persist"
                /\ PollerState(p)' # PollerState(p)
                /\ self_city[p] = Some(n)
                /\ db'[n] = Append(db[n], Val(wait_data[p]))
           /\ \A m \in CityNames \ {n} : ~InsertsInto(m)
    /\ \A p, q \in Threads :
         (p # q /\ PollerState(p)' # PollerState(p)) => PollerState(q)' = PollerState(q)
    /\ LAST_SMS_TIME' # LAST_SMS_TIME => \E p \in Threads : pc[p] = "sms_write"
    /\ csv_file' = csv_file

\* C26: a step of the program inserts into one collection only, that of the
\* city of the poller taking the step, and changes the state of one poller
\* only; the module-level throttle time stamp changes only in a poller's
\* assignment of the notifier's result, and no CSV file is written.
C26_Isolation == [][C26_Step]_vars

\* both pollers have stored an Observation, each in its own collection
C26_Witness ==
  /\ db[S_Calgary] # <<>>
  /\ db[S_Edmonton] # <<>>
  /\ \A n \in CityNames \ {S_Calgary, S_Edmonton} : db[n] = <<>>

\* the collections the dashboard reads: get_mongodb_df("Calgary") and
\* get_mongodb_df("Edmonton")
DashboardCollections == {S_Calgary, S_Edmonton}

\* C27: whatever the letter case of the accepted name an ErWait object was
\* made with, its Observations are in the collection the dashboard reads for
\* that city: no other collection holds an Observation.
C27_OneCollectionPerCity ==
  \A n \in CityNames : db[n] # <<>> => n \in DashboardCollections

\* C28: the Observation an extractor returns holds the time_stamp field and
\* one hospital entry for each position the zip loop visited.
C28_OneEntryPerPosition ==
  \A p \in DOMAIN pc :
    Extracted(p) =>
      Len(Val(wait_data[p])) = 1 + Min(Len(GivenNames(p)), Len(GivenBlocks(p)))

---------------------------------------------------------------------------
(* plot_er_wait_stats.py: the subplot layout tables of get_subplot_dict and  *)
(* the lookups plot_subplots_hour_violin makes in them                      *)

\* max_hospitals = 20
max_hospitals == 20

\* for i in range(max_hospitals): the keys of both tables
SubplotKeys == 0..(max_hospitals - 1)

\* subplot_dimensions after the loop and the three assignments that follow it
subplot_dimensions ==
  [i \in SubplotKeys |->
     IF i = 0 THEN <<0, 0>>
     ELSE IF i = 1 THEN <<1, 0>>
     ELSE IF i = 2 THEN <<1, 2>>
     ELSE IF i % 2 = 0 THEN <<i \div 2, 2>>
     ELSE <<(i \div 2) + 1, 2>>]

\* subplot_locations after the loop and subplot_locations[0] = (0, 0)
subplot_locations ==
  [i \in SubplotKeys |->
     IF i = 0 THEN <<0, 0>>
     ELSE IF i % 2 = 0 THEN <<i \div 2, 2>>
     ELSE <<(i \div 2) + 1, 1>>]

\* plot_subplots_hour_violin has num_hospitals columns to plot and has looked
\* nothing up yet
GridStart(n) ==
  [num_hospitals |-> n, grid |-> None, counter |-> 0, locations |-> <<>>, excn |-> ""]

GridInit ==
  LambdaInitOn({[n \in CityNames |-> <<>>]}, {GridStart(n) : n \in 0..max_hospitals})

\* rows, cols = subplot_dimensions[num_hospitals]
SubplotDimensions ==
  /\ IsNone(dash.grid)
  /\ dash.excn = ""
  /\ dash' = IF dash.num_hospitals \in DOMAIN subplot_dimensions
             THEN [dash EXCEPT !.grid = Some(subplot_dimensions[dash.num_hospitals])]
             ELSE [dash EXCEPT !.excn = "KeyError"]
  /\ UNCHANGED <<env, csvVars, main, now, db, open_sessions, pace, procVars,
                 localVars, smsVars, histVars, lambdaVars>>

\* counter += 1; row, col = subplot_locations[counter]
SubplotLocation ==
  /\ ~IsNone(dash.grid)
  /\ dash.excn = ""
  /\ dash.counter < dash.num_hospitals
  /\ LET counter == dash.counter + 1
     IN dash' = IF counter \in DOMAIN subplot_locations
                THEN [dash EXCEPT !.counter = counter,
                                  !.locations = Append(@, subplot_locations[counter])]
                ELSE [dash EXCEPT !.counter = counter, !.excn = "KeyError"]
  /\ UNCHANGED <<env, csvVars, main, now, db, open_sessions, pace, procVars,
                 localVars, smsVars, histVars, lambdaVars>>

GridNext == SubplotDimensions \/ SubplotLocation

GridSpec == GridInit /\ [][GridNext]_vars

\* C30: for 1 to max_hospitals hospitals the lookup of the grid succeeds and
\* gives one row and one column or more, and the location of every counter
\* looked up is a cell of the grid, different from that of every other counter.
C30_SubplotGrid ==
  dash.num_hospitals >= 1 =>
    /\ dash.excn = ""
    /\ ~IsNone(dash.grid) =>
         LET rows == Val(dash.grid)[1]
             cols == Val(dash.grid)[2]
             locs == dash.locations
         IN /\ rows >= 1
            /\ cols >= 1
            /\ \A k \in DOMAIN locs :
                 /\ locs[k][1] \in 1..rows
                 /\ locs[k][2] \in 1..cols
            /\ \A j, k \in DOMAIN locs : j # k => locs[j] # locs[k]

---------------------------------------------------------------------------
(* dash_er_wait.py: the hospital lists made at import and display_page;     *)
(* plot_er_wait_stats.py: the links get_hospital_links makes for the titles *)
(* of the subplots.  The datastore holds one Observation for each city.     *)

MaxColumns == 2

\* hospital names as stored, with '*' for '.'; the two cities share no name
YycNames == {<<"A">>, <<"B", "*">>, <<"A", " ", "B">>, <<"M", "*", " ", "C">>}

YegNames == {<<"E">>, <<"F", "*">>, <<"E", " ", "F">>}

DistinctSeqs(S, n) ==
  {s \in SeqsUpTo(S, n) : \A j, k \in DOMAIN s : j # k => s[j] # s[k]}

\* an Observation of the hospitals names, each with a wait of 5 minutes
StoredObservation(names) ==
  observation([j \in DOMAIN names |-> Some(names[j])],
              [j \in DOMAIN names |-> Some(5)], 0)

PageStores ==
  {[n \in CityNames |->
      IF n = S_Calgary THEN <<StoredObservation(yyc)>>
      ELSE IF n = S_Edmonton THEN <<StoredObservation(yeg)>>
      ELSE <<>>] : yyc \in DistinctSeqs(YycNames, MaxColumns),
                   yeg \in DistinctSeqs(YegNames, MaxColumns)}

\* [x.replace(" ", "_") for x in list(df.columns)]
hospital_urls(df) ==
  [j \in DOMAIN df.columns |-> Replace(Val(df.columns[j]), " ", "_")]

MainLayout == [layout |-> "main", city |-> None, hospital |-> None]

ViolinLayout(city, hospital) ==
  [layout |-> "violin", city |-> Some(city), hospital |-> Some(hospital)]

\* the dashboard after its import: both data frames are read and the lists
\* yyc_hospitals and yeg_hospitals made; the browser is at '/'
Imported ==
  [yyc_hospitals |-> hospital_urls(Val(get_mongodb_df_returns(S_Calgary).df)),
   yeg_hospitals |-> hospital_urls(Val(get_mongodb_df_returns(S_Edmonton).df)),
   links_city |-> None, links |-> <<>>, followed |-> None,
   pathname |-> <<"/">>, page |-> MainLayout]

PageInit == LambdaInitOn(PageStores, {Imported})

\* one pass of the loop of get_hospital_links
get_hospital_link(hospital) ==
  LET shown == IF \E k \in DOMAIN hospital : hospital[k] = "*"
               THEN Replace(hospital, "*", ".") ELSE hospital
  IN [href |-> Replace(shown, " ", "_"), text |-> shown]

get_hospital_links(hs) == [j \in DOMAIN hs |-> get_hospital_link(hs[j])]

\* hospitals = list(df2.columns); hospitals.remove(TIME_STAMP_HEADER)
PlottedHospitals(city) ==
  LET cols == Val(get_mongodb_df_returns(city).df).columns
      kept == SelectSeq(cols, LAMBDA c : c # Some(S_time_stamp))
  IN [j \in DOMAIN kept |-> Val(kept[j])]

\* plot_subplots_hour_violin(city): the subplot titles are the links
SubplotTitles(city) ==
  /\ dash' = [dash EXCEPT !.links_city = Some(city),
                          !.links = get_hospital_links(PlottedHospitals(city))]
  /\ UNCHANGED <<env, csvVars, main, now, db, open_sessions, pace, procVars,
                 localVars, smsVars, histVars, lambdaVars>>

\* pathname.split('/')[-1]
LastSegment(pathname) ==
  LET slashes == {k \in DOMAIN pathname : pathname[k] = "/"}
      last == IF slashes = {} THEN 0
              ELSE CHOOSE k \in slashes : \A j \in slashes : j <= k
  IN SubSeq(pathname, last + 1, Len(pathname))

IsIn(x, list) == \E j \in DOMAIN list : list[j] = x

\* display_page(pathname, dark_mode, screen_size)
display_page(pathname, yyc_hospitals, yeg_hospitals) ==
  LET hospital_url == LastSegment(pathname)
      name == Replace(hospital_url, "_", " ")
  IN IF pathname = <<"/">> THEN MainLayout
     ELSE IF IsIn(hospital_url, yyc_hospitals) THEN ViolinLayout(S_Calgary, name)
     ELSE IF IsIn(hospital_url, yeg_hospitals) THEN ViolinLayout(S_Edmonton, name)
     ELSE MainLayout

\* the browser requests pathname: the callback display_page runs; link is the
\* city and the position of the link followed, if one was
Request(pathname, link) ==
  dash' = [dash EXCEPT !.pathname = pathname, !.followed = link,
             !.page = display_page(pathname, dash.yyc_hospitals, dash.yeg_hospitals)]

\* the reader follows the j-th link of the subplots: href is relative to the
\* root of the site
FollowLink(j) ==
  /\ j \in DOMAIN dash.links
  /\ Request(<<"/">> \o dash.links[j].href, Some(<<Val(dash.links_city), j>>))
  /\ UNCHANGED <<env, csvVars, main, now, db, open_sessions, pace, procVars,
                 localVars, smsVars, histVars, lambdaVars>>

\* the reader goes back to the main page
GoHome ==
  /\ dash.pathname # <<"/">>
  /\ Request(<<"/">>, None)
  /\ UNCHANGED <<env, csvVars, main, now, db, open_sessions, pace, procVars,
                 localVars, smsVars, histVars, lambdaVars>>

PageNext ==
  \/ \E city \in PlotCities : SubplotTitles(city)
  \/ \E j \in 1..MaxColumns : FollowLink(j)
  \/ GoHome

PageSpec == PageInit /\ [][PageNext]_vars

\* C29: the page shown after a link of the subplots was followed is the violin
\* page of the hospital the link is for, in the city the subplots are of.
C29_LinkRoundTrip ==
  ~IsNone(dash.followed) =>
    /\ dash.page.layout = "violin"
    /\ dash.page.city = Some(Val(dash.followed)[1])
    /\ dash.page.hospital =
         Some(PlottedHospitals(Val(dash.followed)[1])[Val(dash.followed)[2]])

=============================================================================
